---- MODULE Spec2Model ----
(***************************************************************************)
(* Model of raindrop-mapping: the resilient fetch client (src/api.js), the *)
(* retry configuration (src/config.js) and the memoized hierarchy          *)
(* resolvers of src/collections.js.                                        *)
(*                                                                         *)
(* Strings are TLA+ strings; "\o" is JavaScript string concatenation.      *)
(* Every await of the source is one step of the call that performs it.     *)
(***************************************************************************)
EXTENDS Integers, Sequences, FiniteSets, TLC

VARIABLES
    outcomes,       \* the status the remote service answers to attempt k
    api,            \* one call of apiRequest (get): its position and history
    raw,            \* one call of getRaw, fed the same outcomes
    collectionMap,  \* id -> {id, title, parentId}: the CollectionGraph
    keys,           \* insertion order of collectionMap (Map iteration order)
    phase,          \* which resolver of loadCollections is running
    idx,            \* position of the resolver's for-loop in keys
    stack,          \* ids of the active getPath/getRoot/getRootId frames
    mode,           \* "call": top frame just entered; "ret": callee returned
    retval,         \* value returned by the frame that finished last
    pathCache,      \* computeCollectionPaths' pathCache
    rootCache,      \* computeRootCollections' rootCache
    rootIdCache,    \* computeRootCollectionIds' rootIdCache
    fault           \* error that ended resolution, "none" while there is none

clientVars == <<outcomes, api, raw>>
graphVars  == <<collectionMap, keys, phase, idx, stack, mode, retval,
                pathCache, rootCache, rootIdCache, fault>>

VARIABLES
    rootCollections,   \* items of GET /collections, as the service sent them
    childCollections,  \* items of GET /collections/childrens
    groupsData,        \* user.groups of GET /user
    groups,            \* buildGroupMap's map: collection id -> group title
    fullPaths,         \* computeFullPaths' map: id -> path with group prefix
    fetch,             \* the getRaw call of the collection being fetched
    aggIdx,            \* position of fetchAllRaindrops' for-loop in its ids
    allRaindrops,      \* fetchAllRaindrops' accumulator
    seenIds,           \* fetchAllRaindrops' set of identifiers seen
    totalRaindrops,    \* fetchAllRaindrops' counter of unique records
    processed,         \* what each processed collection ended with
    token,             \* config.token
    runPc,             \* position of main
    exitCode,          \* process exit code, NoExit while the run lasts
    discovery,         \* the three get calls of loadCollections' Promise.all
    wire               \* the run's requests as the service sees them: the time
                       \* slept since the last one was sent, and whether one
                       \* was ever sent too soon after another

loadVars == <<rootCollections, childCollections, groupsData, groups, fullPaths>>
aggVars  == <<fetch, aggIdx, allRaindrops, seenIds, totalRaindrops, processed>>
runVars  == <<token, runPc, exitCode, discovery, wire>>

vars       == <<outcomes, api, raw, collectionMap, keys, phase, idx, stack,
                mode, retval, pathCache, rootCache, rootIdCache, fault,
                loadVars, aggVars, runVars>>

(***************************************************************************)
(* config.js                                                               *)
(***************************************************************************)
requestDelay == 200
maxRetries   == 3
retryDelay   == 1000

(***************************************************************************)
(* api.js: responses, errors and the history of a call                     *)
(***************************************************************************)
\* error.response?.status of a failure that carries no HTTP response
NoStatus == 0

\* Statuses the remote service may answer with; 200 is the success.
Statuses == {200, 400, 401, 404, 429, 500, 503, NoStatus}

IsSuccess(status) == status = 200

NoValue == [name |-> "none", status |-> NoStatus, attempt |-> 0]

\* response.data of the successful attempt
Payload(status, attempt) ==
    [name |-> "data", status |-> status, attempt |-> attempt]

\* the error axios rejects with on the failed attempt
AxiosError(status, attempt) ==
    [name |-> "AxiosError", status |-> status, attempt |-> attempt]

RequestEvent(attempt) ==
    [ev |-> "request", attempt |-> attempt, ms |-> 0, why |-> "request"]

\* delay(ms)
DelayEvent(attempt, ms, why) ==
    [ev |-> "wait", attempt |-> attempt, ms |-> ms, why |-> why]

NewCall ==
    [pc |-> "request", attempt |-> 1, log |-> <<>>,
     lastError |-> NoValue, result |-> [kind |-> "pending", value |-> NoValue]]

Return(c, value) ==
    [c EXCEPT !.pc = "done", !.result = [kind |-> "return", value |-> value]]

Throw(c, error) ==
    [c EXCEPT !.pc = "done", !.result = [kind |-> "throw", value |-> error]]

(***************************************************************************)
(* api.js: apiRequest                                                      *)
(***************************************************************************)
\* mutant: the first retry waits the base delay
apiRetryWait_FromBase(attempt) == retryDelay * 2^(attempt - 2)

\* const retryWait = config.retryDelay * Math.pow(2, attempt - 1)
apiRetryWait(attempt) == retryDelay * 2^(attempt - 1)

\* delay(5000): extra delay for rate limiting
apiCooldown == 5000

\* mutant: the loop stops one attempt early
apiLoopTest_OffByOne(attempt) == attempt < maxRetries

\* attempt <= config.maxRetries
apiLoopTest(attempt) == attempt <= maxRetries

\* mutant: the 401 check is missing and every status >= 400 is retried
apiClassify_Retries401(status) ==
    IF status = 429 THEN "cooldown"
    ELSE IF status >= 400 THEN "continue"
    ELSE "throw"

\* mutant: the server-error test reads status >= 400
apiClassify_RetriesClientErrors(status) ==
    IF status = 401 THEN "throw"
    ELSE IF status = 429 THEN "cooldown"
    ELSE IF status >= 400 THEN "continue"
    ELSE "throw"

\* the catch block's decision for a status
apiClassify(status) ==
    IF status = 401 THEN "throw"
    ELSE IF status = 429 THEN "cooldown"
    ELSE IF status >= 500 THEN "continue"
    ELSE "throw"

\* All retries exhausted: throw lastError
apiExhausted(c) == Throw(c, c.lastError)

\* attempt++ of the for statement, its test, and the body up to the first await
apiContinue(c) ==
    LET next == [c EXCEPT !.attempt = c.attempt + 1] IN
    IF apiLoopTest(next.attempt)
    THEN [next EXCEPT !.pc = IF next.attempt > 1 THEN "backoff" ELSE "request"]
    ELSE apiExhausted(next)

\* the catch block, entered with the error of the failed request
apiCatch(c, error) ==
    LET c1 == [c EXCEPT !.lastError = error]
        decision == apiClassify(error.status) IN
    CASE decision = "throw"    -> Throw(c1, error)
      [] decision = "cooldown" -> [c1 EXCEPT !.pc = "cooldown"]
      [] decision = "continue" -> apiContinue(c1)

\* mutant: the payload is returned without the delay
apiResponse_NoDelay(c, status) == Return(c, Payload(status, c.attempt))

\* the request resolved: go on to the delay between successful requests
apiResponse(c, status) == [c EXCEPT !.pc = "delay"]

\* one step of apiRequest: from one await to the next
ApiRequestStep(c, status) ==
    CASE c.pc = "backoff" ->
           [c EXCEPT !.pc = "request",
                     !.log = Append(@, DelayEvent(c.attempt, apiRetryWait(c.attempt), "backoff"))]
      [] c.pc = "request" ->
           LET c1 == [c EXCEPT !.log = Append(@, RequestEvent(c.attempt))] IN
           IF IsSuccess(status)
           THEN apiResponse(c1, status)
           ELSE apiCatch(c1, AxiosError(status, c.attempt))
      [] c.pc = "delay" ->
           Return([c EXCEPT !.log = Append(@, DelayEvent(c.attempt, requestDelay, "requestDelay"))],
                  Payload(status, c.attempt))
      [] c.pc = "cooldown" ->
           apiContinue([c EXCEPT !.log = Append(@, DelayEvent(c.attempt, apiCooldown, "cooldown"))])

(***************************************************************************)
(* api.js: getRaw                                                          *)
(***************************************************************************)
\* mutant: the wait grows linearly
rawRetryWait_Linear(attempt) == retryDelay * attempt

\* const retryWait = config.retryDelay * Math.pow(2, attempt - 1)
rawRetryWait(attempt) == retryDelay * 2^(attempt - 1)

\* delay(5000)
rawCooldown == 5000

\* attempt <= config.maxRetries
rawLoopTest(attempt) == attempt <= maxRetries

\* mutant: the 429 branch is missing
rawClassify_No429(status) ==
    IF status = 401 THEN "throw"
    ELSE IF status >= 500 THEN "continue"
    ELSE "throw"

\* the catch block's decision for a status
rawClassify(status) ==
    IF status = 401 THEN "throw"
    ELSE IF status = 429 THEN "cooldown"
    ELSE IF status >= 500 THEN "continue"
    ELSE "throw"

\* throw lastError
rawExhausted(c) == Throw(c, c.lastError)

rawContinue(c) ==
    LET next == [c EXCEPT !.attempt = c.attempt + 1] IN
    IF rawLoopTest(next.attempt)
    THEN [next EXCEPT !.pc = IF next.attempt > 1 THEN "backoff" ELSE "request"]
    ELSE rawExhausted(next)

rawCatch(c, error) ==
    LET c1 == [c EXCEPT !.lastError = error]
        decision == rawClassify(error.status) IN
    CASE decision = "throw"    -> Throw(c1, error)
      [] decision = "cooldown" -> [c1 EXCEPT !.pc = "cooldown"]
      [] decision = "continue" -> rawContinue(c1)

\* the request resolved: go on to the delay
rawResponse(c, status) == [c EXCEPT !.pc = "delay"]

\* one step of getRaw: from one await to the next
GetRawStep(c, status) ==
    CASE c.pc = "backoff" ->
           [c EXCEPT !.pc = "request",
                     !.log = Append(@, DelayEvent(c.attempt, rawRetryWait(c.attempt), "backoff"))]
      [] c.pc = "request" ->
           LET c1 == [c EXCEPT !.log = Append(@, RequestEvent(c.attempt))] IN
           IF IsSuccess(status)
           THEN rawResponse(c1, status)
           ELSE rawCatch(c1, AxiosError(status, c.attempt))
      [] c.pc = "delay" ->
           Return([c EXCEPT !.log = Append(@, DelayEvent(c.attempt, requestDelay, "requestDelay"))],
                  Payload(status, c.attempt))
      [] c.pc = "cooldown" ->
           rawContinue([c EXCEPT !.log = Append(@, DelayEvent(c.attempt, rawCooldown, "cooldown"))])

(***************************************************************************)
(* The client specification: one apiRequest call and one getRaw call, each *)
(* answered outcomes[k] on its k-th attempt.                               *)
(***************************************************************************)
\* process exit code while the process runs
NoExit == 0 - 1

\* the time since the last request, while none has been sent
NoRequestYet == 0 - 1

\* the wire before the run's first request
NoWire == [since |-> NoRequestYet, unspaced |-> FALSE]

\* a request is sent
Sent(w) ==
    [since |-> 0,
     unspaced |-> w.unspaced \/ (w.since # NoRequestYet /\ w.since < requestDelay)]

\* delay(ms) has elapsed
Slept(w, ms) ==
    [w EXCEPT !.since = IF @ = NoRequestYet THEN @ ELSE @ + ms]

\* the wire after a step of a call that took it from c to next: the step's
\* event if it is a wait, and the request the call sends when the step leaves
\* it awaiting one
WireStep(w, c, next) ==
    LET e == next.log[Len(next.log)]
        w1 == IF e.ev = "wait" THEN Slept(w, e.ms) ELSE w IN
    IF next.pc = "request" THEN Sent(w1) ELSE w1

LoadIdle ==
    /\ rootCollections = <<>>
    /\ childCollections = <<>>
    /\ groupsData = <<>>
    /\ groups = <<>>
    /\ fullPaths = <<>>

AggIdle ==
    /\ fetch = NewCall
    /\ aggIdx = 1
    /\ allRaindrops = <<>>
    /\ seenIds = {}
    /\ totalRaindrops = 0
    /\ processed = <<>>

RunIdle ==
    /\ wire = NoWire
    /\ token = "token"
    /\ runPc = "idle"
    /\ exitCode = NoExit
    /\ discovery = <<>>

GraphIdle ==
    /\ collectionMap = <<>>
    /\ keys = <<>>
    /\ phase = "idle"
    /\ idx = 1
    /\ stack = <<>>
    /\ mode = "call"
    /\ retval = ""
    /\ pathCache = <<>>
    /\ rootCache = <<>>
    /\ rootIdCache = <<>>
    /\ fault = "none"

ClientInit ==
    /\ outcomes \in [1..maxRetries -> Statuses]
    /\ api = NewCall
    /\ raw = NewCall
    /\ GraphIdle
    /\ LoadIdle
    /\ AggIdle
    /\ RunIdle

ApiRequest ==
    /\ api.pc # "done"
    /\ api' = ApiRequestStep(api, outcomes[api.attempt])
    /\ UNCHANGED <<outcomes, raw>>
    /\ UNCHANGED graphVars
    /\ UNCHANGED <<loadVars, aggVars, runVars>>

GetRaw ==
    /\ raw.pc # "done"
    /\ raw' = GetRawStep(raw, outcomes[raw.attempt])
    /\ UNCHANGED <<outcomes, api>>
    /\ UNCHANGED graphVars
    /\ UNCHANGED <<loadVars, aggVars, runVars>>

ClientNext == ApiRequest \/ GetRaw

SpecClient == ClientInit /\ [][ClientNext]_vars

(***************************************************************************)
(* collections.js: the collection graph                                    *)
(***************************************************************************)
\* largest number of collections of a graph
MaxNodes == 3

\* parentId: parentId || null
Null == 0

\* an id that no collection of the graph has
AbsentId == MaxNodes + 1

\* frames the engine's call stack holds before it throws RangeError
\* ("Maximum call stack size exceeded"); deeper than any acyclic chain
StackLimit == MaxNodes + 1

\* col.title of the collection with this id
TitleOf(id) == <<"A", "B", "C", "D", "E", "F">>[id]

\* map.set(id, { id, title: col.title, parentId: parentId || null })
Node(id, parentId) == [id |-> id, title |-> TitleOf(id), parentId |-> parentId]

Orders(n) == {s \in [1 .. n -> 1 .. n] : \A i, j \in 1 .. n : s[i] = s[j] => i = j}

Top(s) == s[Len(s)]
Pop(s) == SubSeq(s, 1, Len(s) - 1)

\* cache.set(id, value)
MapSet(cache, id, value) == (id :> value) @@ cache

(***************************************************************************)
(* collections.js: computeCollectionPaths                                  *)
(***************************************************************************)
\* mutant: a parent id that is not in the map is followed
pathIsRoot_IgnoresMissingParent(map, node) == node.parentId = Null

\* mutant: the parent is looked up in the cache instead of the map
pathIsRoot_ChecksCache(map, node) ==
    node.parentId = Null \/ node.parentId \notin DOMAIN pathCache

\* !node.parentId || !collectionMap.has(node.parentId)
pathIsRoot(map, node) ==
    node.parentId = Null \/ node.parentId \notin DOMAIN map

\* mutant: the separator is missing
JoinPath_NoSeparator(parentPath, title) == parentPath \o title

\* `${parentPath} / ${node.title}`
JoinPath(parentPath, title) == parentPath \o " / " \o title

\* for (const id of collectionMap.keys()) getPath(id); return pathCache
PathsLoop ==
    /\ phase = "paths"
    /\ stack = <<>>
    /\ IF idx <= Len(keys)
       THEN /\ stack' = <<keys[idx]>>
            /\ mode' = "call"
            /\ idx' = idx + 1
            /\ phase' = phase
       ELSE /\ phase' = "roots"
            /\ idx' = 1
            /\ UNCHANGED <<stack, mode>>
    /\ UNCHANGED <<collectionMap, keys, retval, pathCache, rootCache, rootIdCache, fault>>
    /\ UNCHANGED clientVars
    /\ UNCHANGED <<loadVars, aggVars, runVars>>

\* getPath(id): the frame on top of the stack runs to its next call or return
GetPath ==
    /\ phase = "paths"
    /\ stack # <<>>
    /\ LET id == Top(stack) IN
       IF mode = "call"
       THEN IF id \in DOMAIN pathCache
            THEN /\ retval' = pathCache[id]
                 /\ stack' = Pop(stack)
                 /\ mode' = "ret"
                 /\ UNCHANGED <<pathCache, fault, phase>>
            ELSE IF id \notin DOMAIN collectionMap
            THEN /\ retval' = ""
                 /\ stack' = Pop(stack)
                 /\ mode' = "ret"
                 /\ UNCHANGED <<pathCache, fault, phase>>
            ELSE IF pathIsRoot(collectionMap, collectionMap[id])
            THEN /\ pathCache' = MapSet(pathCache, id, collectionMap[id].title)
                 /\ retval' = collectionMap[id].title
                 /\ stack' = Pop(stack)
                 /\ mode' = "ret"
                 /\ UNCHANGED <<fault, phase>>
            ELSE IF Len(stack) >= StackLimit
            THEN /\ fault' = "RangeError"
                 /\ phase' = "fault"
                 /\ UNCHANGED <<stack, mode, retval, pathCache>>
            ELSE /\ stack' = Append(stack, collectionMap[id].parentId)
                 /\ mode' = "call"
                 /\ UNCHANGED <<retval, pathCache, fault, phase>>
       ELSE LET fullPath == JoinPath(retval, collectionMap[id].title) IN
            /\ pathCache' = MapSet(pathCache, id, fullPath)
            /\ retval' = fullPath
            /\ stack' = Pop(stack)
            /\ mode' = "ret"
            /\ UNCHANGED <<fault, phase>>
    /\ UNCHANGED <<collectionMap, keys, idx, rootCache, rootIdCache>>
    /\ UNCHANGED clientVars
    /\ UNCHANGED <<loadVars, aggVars, runVars>>

(***************************************************************************)
(* collections.js: computeRootCollections                                  *)
(***************************************************************************)
\* !node.parentId || !collectionMap.has(node.parentId)
rootIsRoot(map, node) ==
    node.parentId = Null \/ node.parentId \notin DOMAIN map

\* for (const id of collectionMap.keys()) getRoot(id); return rootCache
RootsLoop ==
    /\ phase = "roots"
    /\ stack = <<>>
    /\ IF idx <= Len(keys)
       THEN /\ stack' = <<keys[idx]>>
            /\ mode' = "call"
            /\ idx' = idx + 1
            /\ phase' = phase
       ELSE /\ phase' = "rootIds"
            /\ idx' = 1
            /\ UNCHANGED <<stack, mode>>
    /\ UNCHANGED <<collectionMap, keys, retval, pathCache, rootCache, rootIdCache, fault>>
    /\ UNCHANGED clientVars
    /\ UNCHANGED <<loadVars, aggVars, runVars>>

\* getRoot(id)
GetRoot ==
    /\ phase = "roots"
    /\ stack # <<>>
    /\ LET id == Top(stack) IN
       IF mode = "call"
       THEN IF id \in DOMAIN rootCache
            THEN /\ retval' = rootCache[id]
                 /\ stack' = Pop(stack)
                 /\ mode' = "ret"
                 /\ UNCHANGED <<rootCache, fault, phase>>
            ELSE IF id \notin DOMAIN collectionMap
            THEN /\ retval' = ""
                 /\ stack' = Pop(stack)
                 /\ mode' = "ret"
                 /\ UNCHANGED <<rootCache, fault, phase>>
            ELSE IF rootIsRoot(collectionMap, collectionMap[id])
            THEN /\ rootCache' = MapSet(rootCache, id, collectionMap[id].title)
                 /\ retval' = collectionMap[id].title
                 /\ stack' = Pop(stack)
                 /\ mode' = "ret"
                 /\ UNCHANGED <<fault, phase>>
            ELSE IF Len(stack) >= StackLimit
            THEN /\ fault' = "RangeError"
                 /\ phase' = "fault"
                 /\ UNCHANGED <<stack, mode, retval, rootCache>>
            ELSE /\ stack' = Append(stack, collectionMap[id].parentId)
                 /\ mode' = "call"
                 /\ UNCHANGED <<retval, rootCache, fault, phase>>
       ELSE /\ rootCache' = MapSet(rootCache, id, retval)
            /\ retval' = retval
            /\ stack' = Pop(stack)
            /\ mode' = "ret"
            /\ UNCHANGED <<fault, phase>>
    /\ UNCHANGED <<collectionMap, keys, idx, pathCache, rootIdCache>>
    /\ UNCHANGED clientVars
    /\ UNCHANGED <<loadVars, aggVars, runVars>>

(***************************************************************************)
(* collections.js: computeRootCollectionIds                                *)
(***************************************************************************)
\* !node.parentId || !collectionMap.has(node.parentId)
rootIdIsRoot(map, node) ==
    node.parentId = Null \/ node.parentId \notin DOMAIN map

\* for (const id of collectionMap.keys()) getRootId(id); return rootIdCache
RootIdsLoop ==
    /\ phase = "rootIds"
    /\ stack = <<>>
    /\ IF idx <= Len(keys)
       THEN /\ stack' = <<keys[idx]>>
            /\ mode' = "call"
            /\ idx' = idx + 1
            /\ phase' = phase
       ELSE /\ phase' = "done"
            /\ idx' = 1
            /\ UNCHANGED <<stack, mode>>
    /\ UNCHANGED <<collectionMap, keys, retval, pathCache, rootCache, rootIdCache, fault>>
    /\ UNCHANGED clientVars
    /\ UNCHANGED <<loadVars, aggVars, runVars>>

\* getRootId(id); it returns null for an id that is not in the map
GetRootId ==
    /\ phase = "rootIds"
    /\ stack # <<>>
    /\ LET id == Top(stack) IN
       IF mode = "call"
       THEN IF id \in DOMAIN rootIdCache
            THEN /\ retval' = rootIdCache[id]
                 /\ stack' = Pop(stack)
                 /\ mode' = "ret"
                 /\ UNCHANGED <<rootIdCache, fault, phase>>
            ELSE IF id \notin DOMAIN collectionMap
            THEN /\ retval' = Null
                 /\ stack' = Pop(stack)
                 /\ mode' = "ret"
                 /\ UNCHANGED <<rootIdCache, fault, phase>>
            ELSE IF rootIdIsRoot(collectionMap, collectionMap[id])
            THEN /\ rootIdCache' = MapSet(rootIdCache, id, id)
                 /\ retval' = id
                 /\ stack' = Pop(stack)
                 /\ mode' = "ret"
                 /\ UNCHANGED <<fault, phase>>
            ELSE IF Len(stack) >= StackLimit
            THEN /\ fault' = "RangeError"
                 /\ phase' = "fault"
                 /\ UNCHANGED <<stack, mode, retval, rootIdCache>>
            ELSE /\ stack' = Append(stack, collectionMap[id].parentId)
                 /\ mode' = "call"
                 /\ UNCHANGED <<retval, rootIdCache, fault, phase>>
       ELSE /\ rootIdCache' = MapSet(rootIdCache, id, retval)
            /\ retval' = retval
            /\ stack' = Pop(stack)
            /\ mode' = "ret"
            /\ UNCHANGED <<fault, phase>>
    /\ UNCHANGED <<collectionMap, keys, idx, pathCache, rootCache>>
    /\ UNCHANGED clientVars
    /\ UNCHANGED <<loadVars, aggVars, runVars>>

(***************************************************************************)
(* The resolver specification: loadCollections runs the three resolvers,   *)
(* in its order, over a collection map built from the service's lists.     *)
(***************************************************************************)
ClientIdle ==
    /\ outcomes = [k \in 1 .. maxRetries |-> 200]
    /\ api = NewCall
    /\ raw = NewCall

PathsInit ==
    /\ \E n \in 1 .. MaxNodes :
          \E order \in Orders(n) :
             \E parents \in [1 .. n -> {Null, AbsentId} \cup (1 .. n)] :
                /\ keys = order
                /\ collectionMap = [id \in 1 .. n |-> Node(id, parents[id])]
    /\ phase = "paths"
    /\ idx = 1
    /\ stack = <<>>
    /\ mode = "call"
    /\ retval = ""
    /\ pathCache = <<>>
    /\ rootCache = <<>>
    /\ rootIdCache = <<>>
    /\ fault = "none"
    /\ ClientIdle
    /\ LoadIdle
    /\ AggIdle
    /\ RunIdle

PathsNext ==
    \/ PathsLoop
    \/ GetPath
    \/ RootsLoop
    \/ GetRoot
    \/ RootIdsLoop
    \/ GetRootId

SpecPaths == PathsInit /\ [][PathsNext]_vars

(***************************************************************************)
(* Properties of the client                                                *)
(***************************************************************************)
Calls == {api, raw}

IsRequest(e) == e.ev = "request"
IsWait(e)    == e.ev = "wait"
IsBackoff(e) == e.ev = "wait" /\ e.why = "backoff"

Requests(c) == SelectSeq(c.log, IsRequest)
Waits(c)    == SelectSeq(c.log, IsWait)
Backoffs(c) == SelectSeq(c.log, IsBackoff)

Ms(events) == [i \in 1 .. Len(events) |-> events[i].ms]

Retryable(status) == status = 429 \/ status >= 500

Fatal(status) == ~IsSuccess(status) /\ ~Retryable(status)

Done(c) == c.pc = "done"

\* C1 (as claimed): a call answered 500, 500, then success returns the
\* payload of the third attempt and its backoff waits are exactly
\* retryDelay and retryDelay * 2, in that order.
C1_BackoffBaseThenDouble ==
    \A c \in Calls :
        (outcomes = <<500, 500, 200>> /\ Done(c)) =>
            /\ c.result = [kind |-> "return", value |-> Payload(200, 3)]
            /\ Ms(Backoffs(c)) = <<retryDelay, retryDelay * 2>>

\* C2 (as claimed): a call answered 500 on every attempt fails with a
\* RetriesExhaustedError wrapping the last error, after maxRetries - 1 waits.
C2_ExhaustionWrapsLastError ==
    \A c \in Calls :
        ((\A k \in 1 .. maxRetries : outcomes[k] = 500) /\ Done(c)) =>
            /\ c.result.kind = "throw"
            /\ c.result.value.name = "RetriesExhaustedError"
            /\ Len(Waits(c)) = maxRetries - 1

\* C2 (amended): a call answered 500 on every attempt issues maxRetries
\* requests, performs exactly maxRetries - 1 waits, and fails by throwing
\* the error of the last attempt itself, unwrapped.
C2_ExhaustionRethrowsLastError ==
    \A c \in Calls :
        ((\A k \in 1 .. maxRetries : outcomes[k] = 500) /\ Done(c)) =>
            /\ c.result = [kind |-> "throw", value |-> AxiosError(500, maxRetries)]
            /\ Len(Requests(c)) = maxRetries
            /\ Len(Waits(c)) = maxRetries - 1

C2_Witness ==
    /\ \A k \in 1 .. maxRetries : outcomes[k] = 500
    /\ Done(api) /\ Done(raw)
    /\ api.result.kind = "throw"

\* C3: a request answered 401 is the last event of its call: the call has
\* ended by throwing that error, with no request and no wait after it.
C3_UnauthorizedAbortsImmediately ==
    \A c \in Calls : \A i \in 1 .. Len(c.log) :
        (IsRequest(c.log[i]) /\ outcomes[c.log[i].attempt] = 401) =>
            /\ i = Len(c.log)
            /\ Done(c)
            /\ c.result = [kind |-> "throw", value |-> AxiosError(401, c.log[i].attempt)]

C3_Witness ==
    /\ outcomes[1] = 429 /\ outcomes[2] = 401
    /\ Done(api) /\ Done(raw)
    /\ Len(api.log) = 4 /\ Len(raw.log) = 4

\* C4: a request answered 429 is followed by the fixed cooldown and, while
\* attempts remain, by the next attempt; a call answered 429 on every attempt
\* issues exactly maxRetries requests and then fails; the cooldown is longer
\* than every backoff wait.
C4_RateLimitCooldownConsumesAttempt ==
    \A c \in Calls :
        /\ \A i \in 1 .. Len(c.log) :
              (IsRequest(c.log[i]) /\ outcomes[c.log[i].attempt] = 429) =>
                  LET k == c.log[i].attempt IN
                  /\ i = Len(c.log) => c.pc = "cooldown"
                  /\ i < Len(c.log) => /\ IsWait(c.log[i + 1])
                                       /\ c.log[i + 1].why = "cooldown"
                                       /\ c.log[i + 1].ms = 5000
                  /\ (Done(c) /\ k < maxRetries) =>
                        \E j \in i + 1 .. Len(c.log) :
                            IsRequest(c.log[j]) /\ c.log[j].attempt = k + 1
        /\ \A i \in 1 .. Len(c.log) :
              IsBackoff(c.log[i]) => c.log[i].ms < 5000
        /\ ((\A k \in 1 .. maxRetries : outcomes[k] = 429) /\ Done(c)) =>
              /\ Len(Requests(c)) = maxRetries
              /\ c.result = [kind |-> "throw", value |-> AxiosError(429, maxRetries)]

C4_Witness ==
    /\ \A k \in 1 .. maxRetries : outcomes[k] = 429
    /\ Done(api) /\ Done(raw)
    /\ Len(Requests(raw)) = maxRetries
    /\ Len(Backoffs(raw)) = maxRetries - 1

\* C5: a request that fails with a status other than 401, 429 or >= 500, or
\* with no status at all, is the last event of its call: the call has ended
\* by throwing exactly the error of that attempt.
C5_OtherFailuresAbortUnmodified ==
    \A c \in Calls : \A i \in 1 .. Len(c.log) :
        LET k == c.log[i].attempt
            s == outcomes[k] IN
        (IsRequest(c.log[i]) /\ ~IsSuccess(s) /\ s # 401 /\ s # 429 /\ ~(s >= 500)) =>
            /\ i = Len(c.log)
            /\ Done(c)
            /\ c.result = [kind |-> "throw", value |-> AxiosError(s, k)]

C5_Witness ==
    /\ outcomes[1] = 503 /\ outcomes[2] \in {NoStatus, 404}
    /\ Done(api) /\ Done(raw)
    /\ api.result.value.attempt = 2

\* C6: a call issues its requests as attempts 1, 2, ... and at most
\* maxRetries of them, at least one once it has ended; only a retryable
\* outcome is followed by another request; a successful request is followed
\* by the request delay alone, and the call then returns that attempt's payload.
C6_BoundedAttemptsAndSuccessDelay ==
    \A c \in Calls :
        LET reqs == Requests(c) IN
        /\ Len(reqs) <= maxRetries
        /\ Done(c) => Len(reqs) >= 1
        /\ \A n \in 1 .. Len(reqs) : reqs[n].attempt = n
        /\ \A n \in 1 .. Len(reqs) - 1 : Retryable(outcomes[n])
        /\ \A i \in 1 .. Len(c.log) :
              (IsRequest(c.log[i]) /\ IsSuccess(outcomes[c.log[i].attempt])) =>
                  LET k == c.log[i].attempt IN
                  /\ i = Len(c.log) => c.pc = "delay"
                  /\ i < Len(c.log) =>
                        /\ i + 1 = Len(c.log)
                        /\ c.log[i + 1] = DelayEvent(k, requestDelay, "requestDelay")
                        /\ Done(c)
                        /\ c.result = [kind |-> "return", value |-> Payload(outcomes[k], k)]
        /\ (Done(c) /\ c.result.kind = "return") =>
              /\ Len(c.log) >= 2
              /\ IsRequest(c.log[Len(c.log) - 1])
              /\ IsSuccess(outcomes[c.log[Len(c.log) - 1].attempt])

C6_Witness ==
    /\ Done(api) /\ Done(raw)
    /\ api.result = [kind |-> "return", value |-> Payload(200, maxRetries)]
    /\ raw.result.kind = "return"

IsPrefix(s, t) == Len(s) <= Len(t) /\ SubSeq(t, 1, Len(s)) = s

\* C7: fed the same outcomes, apiRequest and getRaw perform the same
\* requests and waits in the same order and end in the same result.
C7_SameRetryStateMachine ==
    /\ IsPrefix(api.log, raw.log) \/ IsPrefix(raw.log, api.log)
    /\ Len(api.log) = Len(raw.log) => api.pc = raw.pc /\ api.attempt = raw.attempt
    /\ (Done(api) /\ Done(raw)) =>
          /\ api.log = raw.log
          /\ api.result = raw.result

C7_Witness ==
    /\ outcomes = <<429, 500, 200>>
    /\ Done(api) /\ Done(raw)
    /\ Len(raw.log) = 7

(***************************************************************************)
(* Properties of the resolvers                                             *)
(***************************************************************************)
NodeIds == DOMAIN collectionMap

\* a node with no parent, or whose parent id is absent from the graph
IsRootNode(id) ==
    collectionMap[id].parentId = Null \/ collectionMap[id].parentId \notin NodeIds

\* a node whose parentId names an id that is absent from the graph
IsOrphan(id) ==
    collectionMap[id].parentId # Null /\ collectionMap[id].parentId \notin NodeIds

RECURSIVE Climb(_, _)
\* the node reached from id by n parent references; Null past a root
Climb(id, n) ==
    IF n = 0 THEN id
    ELSE IF IsRootNode(id) THEN Null
    ELSE Climb(collectionMap[id].parentId, n - 1)

OnCycle(id) == \E n \in 1 .. Cardinality(NodeIds) : Climb(id, n) = id

HasCycle == \E id \in NodeIds : OnCycle(id)

Resolved == phase \in {"roots", "rootIds", "done"}

\* C8: on a graph without cycles, a cached path of a root is its title and a
\* cached path of a non-root is its parent's cached path, " / ", its title;
\* once computeCollectionPaths has returned, every node has a path.
C8_PathOfRootAndChild ==
    ~HasCycle =>
        /\ \A id \in DOMAIN pathCache :
              /\ id \in NodeIds
              /\ IF IsRootNode(id)
                 THEN pathCache[id] = collectionMap[id].title
                 ELSE /\ collectionMap[id].parentId \in DOMAIN pathCache
                      /\ pathCache[id] =
                            pathCache[collectionMap[id].parentId] \o " / " \o collectionMap[id].title
        /\ Resolved => DOMAIN pathCache = NodeIds

C8_Witness ==
    /\ phase = "done"
    /\ ~HasCycle
    /\ \E id \in NodeIds :
          /\ ~IsRootNode(id)
          /\ ~IsRootNode(collectionMap[id].parentId)
          /\ pathCache[id] = "C / A / B"

\* C9: a node whose parent id is absent from the graph resolves as a root:
\* path and root title are its own title, its root id is its own id; its
\* resolution calls no further frame and raises no error.
C9_OrphanResolvesAsRoot ==
    \A id \in NodeIds :
        IsOrphan(id) =>
            /\ id \in DOMAIN pathCache => pathCache[id] = collectionMap[id].title
            /\ id \in DOMAIN rootCache => rootCache[id] = collectionMap[id].title
            /\ id \in DOMAIN rootIdCache => rootIdCache[id] = id
            /\ phase = "done" =>
                  /\ id \in DOMAIN pathCache
                  /\ id \in DOMAIN rootCache
                  /\ id \in DOMAIN rootIdCache
            /\ \A i \in 1 .. Len(stack) - 1 : stack[i] # id
            /\ (fault # "none" /\ stack # <<>>) => Top(stack) # id

C9_Witness ==
    /\ phase = "done"
    /\ \E id \in NodeIds :
          /\ IsOrphan(id)
          /\ \E child \in NodeIds :
                /\ collectionMap[child].parentId = id
                /\ rootIdCache[child] = id
                /\ rootCache[child] = collectionMap[id].title

\* C10 (as claimed): resolution terminates on every graph: no chain of
\* frames is longer than the graph has nodes, and the only error a
\* resolution ends with is a GraphCycleError.
C10_CycleRaisesGraphCycleError ==
    /\ Len(stack) <= Cardinality(NodeIds)
    /\ fault \in {"none", "GraphCycleError"}

RECURSIVE PathRef(_)
\* the titles from the top ancestor down to id, joined by " / "
PathRef(id) ==
    IF IsRootNode(id) THEN collectionMap[id].title
    ELSE PathRef(collectionMap[id].parentId) \o " / " \o collectionMap[id].title

RECURSIVE RootRef(_)
\* the top ancestor of id
RootRef(id) ==
    IF IsRootNode(id) THEN id ELSE RootRef(collectionMap[id].parentId)

\* C20: on an acyclic graph every cached path, root title and root id is the
\* value the parent chain alone determines, in every key order and at every
\* moment, and a value handed back to a waiting frame, from the cache or
\* freshly computed, is that value too; every node ends up with all three.
C20_ResolutionOrderIndependent ==
    ~HasCycle =>
        /\ \A id \in DOMAIN pathCache : pathCache[id] = PathRef(id)
        /\ \A id \in DOMAIN rootCache : rootCache[id] = collectionMap[RootRef(id)].title
        /\ \A id \in DOMAIN rootIdCache : rootIdCache[id] = RootRef(id)
        /\ (mode = "ret" /\ stack # <<>>) =>
              LET parent == collectionMap[Top(stack)].parentId IN
              /\ phase = "paths" => retval = PathRef(parent)
              /\ phase = "roots" => retval = collectionMap[RootRef(parent)].title
              /\ phase = "rootIds" => retval = RootRef(parent)
        /\ phase = "done" =>
              /\ DOMAIN pathCache = NodeIds
              /\ DOMAIN rootCache = NodeIds
              /\ DOMAIN rootIdCache = NodeIds

C20_Witness ==
    /\ phase = "done"
    /\ ~HasCycle
    /\ \E i, j, k \in 1 .. Len(keys) :
          /\ i < j /\ j < k
          /\ collectionMap[keys[i]].parentId = keys[j]
          /\ collectionMap[keys[k]].parentId = keys[i]

(***************************************************************************)
(* collections.js: buildCollectionMap, buildGroupMap, computeFullPaths     *)
(***************************************************************************)
\* largest number of collections the service lists
MaxRaw == 2

\* largest number of groups the service lists
MaxGroups == 1

\* col.parent is missing
NoParent == [shape |-> "none", ref |-> Null]

\* col.parent: absent, a bare id, an object holding the id as $id, or an
\* object holding no id field
ParentRefs(n) ==
    {NoParent, [shape |-> "object", ref |-> Null]}
        \cup [shape : {"bare", "$id"}, ref : (1 .. n) \cup {AbsentId}]

\* a collection object as the service sends it
RawCollection(id, parent) == [id |-> id, title |-> TitleOf(id), parent |-> parent]

\* if (col.parent): the parent reference is truthy
HasParentRef(col) ==
    col.parent.shape # "none" /\ ~(col.parent.shape = "bare" /\ col.parent.ref = Null)

\* col.parent.$id || col.parent._id || col.parent.id || col.parent, then
\* null for an object, then parentId || null
ParentIdOf(col, defaultParentId) ==
    IF HasParentRef(col)
    THEN IF col.parent.shape = "object" THEN Null ELSE col.parent.ref
    ELSE defaultParentId

\* addCollection(col, defaultParentId) on the map and its key order
addCollection(acc, col, defaultParentId) ==
    [map  |-> MapSet(acc.map, col.id,
                     [id |-> col.id, title |-> col.title,
                      parentId |-> ParentIdOf(col, defaultParentId)]),
     keys |-> IF col.id \in DOMAIN acc.map THEN acc.keys ELSE Append(acc.keys, col.id)]

RECURSIVE addEach(_, _, _)
\* list.forEach((c) => addCollection(c, defaultParentId))
addEach(acc, list, defaultParentId) ==
    IF list = <<>> THEN acc
    ELSE addEach(addCollection(acc, Head(list), defaultParentId), Tail(list), defaultParentId)

\* buildCollectionMap(rootCollections, childCollections)
buildCollectionMap(roots, children) ==
    addEach(addEach([map |-> <<>>, keys |-> <<>>], roots, Null), children, Null)

RECURSIVE setEach(_, _, _)
\* for (const collectionId of group.collections || []) map.set(collectionId, groupTitle)
setEach(map, ids, groupTitle) ==
    IF ids = <<>> THEN map
    ELSE setEach(MapSet(map, Head(ids), groupTitle), Tail(ids), groupTitle)

RECURSIVE buildGroupMapFrom(_, _)
buildGroupMapFrom(map, list) ==
    IF list = <<>> THEN map
    ELSE buildGroupMapFrom(setEach(map, Head(list).collections, Head(list).title), Tail(list))

\* buildGroupMap(groups); a missing title was sent as ""
buildGroupMap(list) == buildGroupMapFrom(<<>>, list)

\* mutant: the group is looked up under the collection's own id
fullPathOf_OwnId(id, path, rootIds, groupMap) ==
    LET group == IF id # Null /\ id \in DOMAIN groupMap THEN groupMap[id] ELSE "" IN
    IF group # "" THEN group \o " / " \o path ELSE path

\* the body of computeFullPaths' loop
fullPathOf(id, path, rootIds, groupMap) ==
    LET rootId == rootIds[id]
        group  == IF rootId # Null /\ rootId \in DOMAIN groupMap THEN groupMap[rootId] ELSE "" IN
    IF group # "" THEN group \o " / " \o path ELSE path

\* computeFullPaths(paths, rootIds, groups)
computeFullPaths(paths, rootIds, groupMap) ==
    [id \in DOMAIN paths |-> fullPathOf(id, paths[id], rootIds, groupMap)]

\* groups.get(id) || ''
GroupField(id) == IF id \in DOMAIN groups /\ groups[id] # "" THEN groups[id] ELSE ""

\* the record writeCollectionsCsv pushes for a collection
CollectionRecord(id) ==
    [id |-> id,
     title |-> collectionMap[id].title,
     parentId |-> collectionMap[id].parentId,
     collectionPath |-> pathCache[id],
     fullPath |-> fullPaths[id],
     rootCollection |-> rootCache[id],
     group |-> GroupField(id)]

\* mutant: the path without the group prefix is handed on as full_path
Metadata_PlainPath(id) ==
    [collection_id |-> id,
     collection_title |-> collectionMap[id].title,
     full_path |-> pathCache[id],
     root_collection |-> rootCache[id],
     group |-> GroupField(id)]

\* the metadata fetchAllRaindrops hands to fetchCollectionRaindrops
Metadata(id) ==
    [collection_id |-> id,
     collection_title |-> collectionMap[id].title,
     full_path |-> fullPaths[id],
     root_collection |-> rootCache[id],
     group |-> GroupField(id)]

\* group.collections: some of the ids 1 .. n, each once
GroupMembers(n) ==
    {s \in UNION {[1 .. k -> 1 .. n] : k \in 0 .. n} :
        \A i \in 1 .. Len(s) - 1 : s[i] < s[i + 1]}

\* the groups the service may list for n collections
GroupLists(n) ==
    UNION {[1 .. k -> [title : {"", "G"}, collections : GroupMembers(n)]] :
              k \in 0 .. MaxGroups}

(***************************************************************************)
(* The loading specification: loadCollections after its three fetches.     *)
(***************************************************************************)
LoadInit ==
    /\ \E n \in 1 .. MaxRaw :
          \E r \in 0 .. n :
             \E parents \in [1 .. n -> ParentRefs(n)] :
                /\ rootCollections = [i \in 1 .. r |-> RawCollection(i, parents[i])]
                /\ childCollections = [i \in 1 .. n - r |-> RawCollection(r + i, parents[r + i])]
    /\ groupsData = <<>>
    /\ groups = <<>>
    /\ fullPaths = <<>>
    /\ collectionMap = <<>>
    /\ keys = <<>>
    /\ phase = "build"
    /\ idx = 1
    /\ stack = <<>>
    /\ mode = "call"
    /\ retval = ""
    /\ pathCache = <<>>
    /\ rootCache = <<>>
    /\ rootIdCache = <<>>
    /\ fault = "none"
    /\ ClientIdle
    /\ AggIdle
    /\ RunIdle

\* const map = buildCollectionMap(rootCollections, childCollections)
BuildCollectionMap ==
    /\ phase = "build"
    /\ LET built == buildCollectionMap(rootCollections, childCollections) IN
          /\ collectionMap' = built.map
          /\ keys' = built.keys
    /\ phase' = "paths"
    /\ UNCHANGED <<idx, stack, mode, retval, pathCache, rootCache, rootIdCache, fault>>
    /\ UNCHANGED <<loadVars, aggVars, runVars>>
    /\ UNCHANGED clientVars

\* const groups = buildGroupMap(groupsData);
\* const fullPaths = computeFullPaths(paths, rootIds, groups);
\* groupsData is the answer to GET /user, first read here
ComposeFullPaths ==
    /\ phase = "done"
    /\ \E list \in GroupLists(Len(keys)) :
          /\ groupsData' = list
          /\ groups' = buildGroupMap(list)
          /\ fullPaths' = computeFullPaths(pathCache, rootIdCache, buildGroupMap(list))
    /\ phase' = "loaded"
    /\ UNCHANGED <<rootCollections, childCollections>>
    /\ UNCHANGED <<collectionMap, keys, idx, stack, mode, retval, pathCache,
                   rootCache, rootIdCache, fault>>
    /\ UNCHANGED <<aggVars, runVars>>
    /\ UNCHANGED clientVars

LoadNext ==
    \/ BuildCollectionMap
    \/ PathsLoop
    \/ GetPath
    \/ RootsLoop
    \/ GetRoot
    \/ RootIdsLoop
    \/ GetRootId
    \/ ComposeFullPaths

SpecLoad == LoadInit /\ [][LoadNext]_vars

(***************************************************************************)
(* Properties of the loaded collections                                    *)
(***************************************************************************)
Loaded == phase = "loaded"

\* C11 (as claimed): every node has a fullPath entry; it is the node's path
\* when no group maps the node's root id, and the group title, " / ", the
\* path when a group maps it.
C11_FullPathByGroupMembership ==
    Loaded =>
        \A id \in NodeIds :
            /\ id \in DOMAIN fullPaths
            /\ RootRef(id) \notin DOMAIN groups => fullPaths[id] = pathCache[id]
            /\ RootRef(id) \in DOMAIN groups =>
                  fullPaths[id] = groups[RootRef(id)] \o " / " \o pathCache[id]

\* C11 (amended): every node has a fullPath entry; it is the group title,
\* " / ", the path when a group with a non-empty title maps the node's root
\* id, and the node's path when no group maps it or the group's title is empty.
C11_FullPathByNonEmptyGroup ==
    Loaded =>
        \A id \in NodeIds :
            /\ id \in DOMAIN fullPaths
            /\ IF RootRef(id) \in DOMAIN groups /\ groups[RootRef(id)] # ""
               THEN fullPaths[id] = groups[RootRef(id)] \o " / " \o PathRef(id)
               ELSE fullPaths[id] = PathRef(id)

C11_Witness ==
    /\ Loaded
    /\ \E id \in NodeIds :
          /\ ~IsRootNode(id)
          /\ fullPaths[id] = "G / A / B"
          /\ id \notin DOMAIN groups

\* C18 (as claimed): every collection of the roots list is in the graph with
\* parentId = null, whatever parent reference it carries.
C18_RootsInsertedWithoutParent ==
    phase # "build" =>
        \A i \in 1 .. Len(rootCollections) :
            collectionMap[rootCollections[i].id].parentId = Null

\* C19 (as claimed): for every collection, in its collections row and in the
\* metadata of its bookmarks, the full path is group, " / ", path when the
\* emitted group field is non-empty and is the path when it is empty.
C19_GroupFieldAgreesWithFullPath ==
    Loaded =>
        \A id \in NodeIds :
            LET row == CollectionRecord(id)
                tag == Metadata(id) IN
            /\ IF row.group # ""
               THEN row.fullPath = row.group \o " / " \o row.collectionPath
               ELSE row.fullPath = row.collectionPath
            /\ IF tag.group # ""
               THEN tag.full_path = tag.group \o " / " \o row.collectionPath
               ELSE tag.full_path = row.collectionPath

\* C19 (amended): the group field and the full path agree for collections
\* that are roots of the graph; for every collection the full path carries
\* the non-empty group title of its root id, while the emitted group field is
\* the title mapped to the collection's own id, so a child of a grouped root
\* has the prefix in its full path and, unless a group lists the child
\* itself, an empty group field; row and bookmark metadata carry the same
\* full path and group.
C19_GroupFieldAgreesForRoots ==
    Loaded =>
        \A id \in NodeIds :
            LET row == CollectionRecord(id)
                tag == Metadata(id)
                rootGroup == GroupField(RootRef(id)) IN
            /\ tag.full_path = row.fullPath
            /\ tag.group = row.group
            /\ row.group = GroupField(id)
            /\ IF rootGroup # ""
               THEN row.fullPath = rootGroup \o " / " \o row.collectionPath
               ELSE row.fullPath = row.collectionPath
            /\ IsRootNode(id) =>
                  IF tag.group # ""
                  THEN tag.full_path = tag.group \o " / " \o row.collectionPath
                  ELSE tag.full_path = row.collectionPath

C19_Witness ==
    /\ Loaded
    /\ \E id \in NodeIds :
          /\ ~IsRootNode(id)
          /\ CollectionRecord(RootRef(id)).group = "G"
          /\ CollectionRecord(id).group = ""
          /\ Metadata(id).full_path = "G / A / B"

(***************************************************************************)
(* raindrops.js: fetchCollectionRaindrops and fetchAllRaindrops            *)
(***************************************************************************)
\* largest number of collections fetchAllRaindrops is given
MaxCollections == 2

\* largest number of rows the exports of one run hold together
MaxRows == 2

\* the rows csv-parser yields, sanitized: the identifier columns of a bookmark
Rows == {[id |-> "1", _id |-> ""], [id |-> "2", _id |-> ""],
         [id |-> "", _id |-> "1"], [id |-> "", _id |-> ""]}

\* an export body: empty, whitespace only (one line, or two: csv-parser
\* would read the second as a row of blank fields), or CSV text; rows is what
\* csv-parser reads from the text
Bodies ==
    {[text |-> "", rows |-> <<>>], [text |-> "  ", rows |-> <<>>],
     [text |-> "  ", rows |-> <<[id |-> "", _id |-> ""]>>]}
        \cup [text : {"csv"}, rows : UNION {[1 .. k -> Rows] : k \in 0 .. MaxRows}]

\* no body was received
NoBody == [text |-> "", rows |-> <<>>]

\* csvContent.trim()
Trim(text) == IF text = "  " THEN "" ELSE text

\* !csvContent || csvContent.trim() === ''
IsBlank(body) == body.text = "" \/ Trim(body.text) = ""

\* parseCsv(csvContent)
parseCsv(body) == body.rows

\* { ...row, collection_id, collection_title, full_path, root_collection, group }
Tagged(row, meta) == meta @@ row

\* mutant: every status counts as a failure
IsNotFound_Never(error) == FALSE

\* error.response?.status === 404
IsNotFound(error) == error.status = 404

\* fetchCollectionRaindrops, given how its getRaw call ended and, when it
\* returned, the body it returned
fetchCollectionRaindrops(result, body, meta) ==
    IF result.kind = "return"
    THEN IF IsBlank(body)
         THEN [kind |-> "return", rows |-> <<>>, error |-> NoValue]
         ELSE [kind |-> "return",
               rows |-> [i \in 1 .. Len(parseCsv(body)) |-> Tagged(parseCsv(body)[i], meta)],
               error |-> NoValue]
    ELSE IF IsNotFound(result.value)
         THEN [kind |-> "return", rows |-> <<>>, error |-> NoValue]
         ELSE [kind |-> "throw", rows |-> <<>>, error |-> result.value]

\* mutant: the alternate identifier field is not read
RaindropId_NoFallback(raindrop) == raindrop.id

\* raindrop.id || raindrop._id
RaindropId(raindrop) == IF raindrop.id # "" THEN raindrop.id ELSE raindrop._id

\* mutant: the tests do not ask whether there is an identifier at all
foldRaindrop_NoTruthinessTest(acc, raindrop) ==
    LET raindropId == RaindropId(raindrop) IN
    IF raindropId \in acc.seen
    THEN acc
    ELSE [out   |-> Append(acc.out, raindrop),
          seen  |-> acc.seen \cup {raindropId},
          total |-> acc.total + 1]

\* mutant: the seen-id test is missing
foldRaindrop_NoSeenTest(acc, raindrop) ==
    LET raindropId == RaindropId(raindrop) IN
    [out   |-> Append(acc.out, raindrop),
     seen  |-> IF raindropId # "" THEN acc.seen \cup {raindropId} ELSE acc.seen,
     total |-> acc.total + 1]

\* the body of the deduplication loop
foldRaindrop(acc, raindrop) ==
    LET raindropId == RaindropId(raindrop) IN
    IF raindropId # "" /\ raindropId \in acc.seen
    THEN acc
    ELSE [out   |-> Append(acc.out, raindrop),
          seen  |-> IF raindropId # "" THEN acc.seen \cup {raindropId} ELSE acc.seen,
          total |-> acc.total + 1]

RECURSIVE foldRaindrops(_, _)
\* for (const raindrop of raindrops) ...
foldRaindrops(acc, raindrops) ==
    IF raindrops = <<>> THEN acc
    ELSE foldRaindrops(foldRaindrop(acc, Head(raindrops)), Tail(raindrops))

RECURSIVE RowsIn(_)
\* the rows of the exports received so far
RowsIn(entries) ==
    IF entries = <<>> THEN 0
    ELSE Len(Head(entries).body.rows) + RowsIn(Tail(entries))

\* mutant: the error of a collection is thrown on
aggCatch_Rethrows(error) == "rethrow"

\* catch (error) { console.error(...) }: log it and go on
aggCatch(error) == "continue"

\* statuses the service answers an export request with
ExportStatuses == {200, 401, 404, 500}

(***************************************************************************)
(* The aggregation specification: fetchAllRaindrops over loaded            *)
(* collections: a root in group G and its children.                        *)
(***************************************************************************)
\* what loadCollections returns for a root in group G and its n - 1 children
LoadedGraph(n) ==
    [keys |-> [i \in 1 .. n |-> i],
     map |-> [id \in 1 .. n |-> Node(id, IF id = 1 THEN Null ELSE 1)],
     paths |-> [id \in 1 .. n |->
                  IF id = 1 THEN TitleOf(1) ELSE JoinPath(TitleOf(1), TitleOf(id))],
     roots |-> [id \in 1 .. n |-> TitleOf(1)],
     rootIds |-> [id \in 1 .. n |-> 1],
     fullPaths |-> [id \in 1 .. n |->
                  IF id = 1 THEN JoinPath("G", TitleOf(1))
                  ELSE JoinPath("G", JoinPath(TitleOf(1), TitleOf(id)))],
     groupsData |-> <<[title |-> "G", collections |-> <<1>>]>>]

AggInit ==
    /\ \E n \in 1 .. MaxCollections :
          LET g == LoadedGraph(n) IN
          /\ keys = g.keys
          /\ collectionMap = g.map
          /\ pathCache = g.paths
          /\ rootCache = g.roots
          /\ rootIdCache = g.rootIds
          /\ fullPaths = g.fullPaths
          /\ groupsData = g.groupsData
          /\ groups = buildGroupMap(g.groupsData)
    /\ rootCollections = <<>>
    /\ childCollections = <<>>
    /\ phase = "loaded"
    /\ idx = 1
    /\ stack = <<>>
    /\ mode = "call"
    /\ retval = ""
    /\ fault = "none"
    /\ AggIdle
    /\ token = "token"
    /\ wire = Sent(NoWire)
    /\ runPc = "aggregate"
    /\ exitCode = NoExit
    /\ discovery = <<>>
    /\ ClientIdle

\* one step of the getRaw call that fetchCollectionCsv awaits
FetchCollectionCsv ==
    /\ runPc = "aggregate"
    /\ aggIdx <= Len(keys)
    /\ fetch.pc # "done"
    /\ \E status \in ExportStatuses :
          /\ fetch.pc # "request" => status = 200
          /\ fetch' = GetRawStep(fetch, status)
          /\ wire' = WireStep(wire, fetch, GetRawStep(fetch, status))
    /\ UNCHANGED <<aggIdx, allRaindrops, seenIds, totalRaindrops, processed>>
    /\ UNCHANGED <<token, runPc, exitCode, discovery>>
    /\ UNCHANGED <<loadVars, graphVars, clientVars>>

\* the rest of one iteration of fetchAllRaindrops' loop, once getRaw ended
FetchAllRaindrops ==
    /\ runPc = "aggregate"
    /\ aggIdx <= Len(keys)
    /\ fetch.pc = "done"
    /\ \E body \in Bodies :
          LET id == keys[aggIdx]
              got == fetchCollectionRaindrops(fetch.result, body, Metadata(id))
              acc == foldRaindrops([out |-> allRaindrops, seen |-> seenIds,
                                    total |-> totalRaindrops], got.rows)
              thrown == got.kind = "throw"
              entry == [id |-> id,
                        status |-> fetch.result.value.status,
                        outcome |-> IF thrown THEN "failed"
                                    ELSE IF fetch.result.kind = "throw" THEN "notFound"
                                    ELSE "records",
                        body |-> body] IN
          /\ fetch.result.kind = "throw" => body = NoBody
          /\ Len(body.rows) + RowsIn(processed) <= MaxRows
          /\ allRaindrops' = acc.out
          /\ seenIds' = acc.seen
          /\ totalRaindrops' = acc.total
          /\ processed' = Append(processed, entry)
          /\ IF thrown /\ aggCatch(got.error) = "rethrow"
             THEN /\ runPc' = "fatal"
                  /\ exitCode' = 1
                  /\ UNCHANGED <<aggIdx, fetch, wire>>
             ELSE /\ aggIdx' = aggIdx + 1
                  /\ fetch' = NewCall
                  /\ wire' = IF aggIdx + 1 > Len(keys) THEN wire ELSE Sent(wire)
                  /\ runPc' = IF aggIdx + 1 > Len(keys) THEN "returned" ELSE runPc
                  /\ UNCHANGED exitCode
    /\ UNCHANGED <<token, discovery>>
    /\ UNCHANGED <<loadVars, graphVars, clientVars>>

AggNext == FetchCollectionCsv \/ FetchAllRaindrops

SpecAgg == AggInit /\ [][AggNext]_vars

(***************************************************************************)
(* index.js: main, from validateConfig to the end of the process           *)
(***************************************************************************)
\* mutant: the token is never found missing
TokenMissing_Never(t) == FALSE

\* !config.token
TokenMissing(t) == t = ""

\* the three fetches loadCollections hands to Promise.all
Fetchers == 1 .. 3

\* statuses the service answers a discovery request with
DiscoveryStatuses == {200, 401, 500}

RECURSIVE SentTimes(_, _)
\* n requests are sent one right after the other
SentTimes(w, n) == IF n = 0 THEN w ELSE SentTimes(Sent(w), n - 1)

RunInit ==
    /\ token \in {"", "token"}
    /\ wire = NoWire
    /\ runPc = "start"
    /\ exitCode = NoExit
    /\ discovery = <<>>
    /\ GraphIdle
    /\ LoadIdle
    /\ AggIdle
    /\ ClientIdle

\* validateConfig(): process.exit(1) when the token is missing
ValidateConfig ==
    /\ runPc = "start"
    /\ IF TokenMissing(token)
       THEN runPc' = "exited" /\ exitCode' = 1
       ELSE runPc' = "validated" /\ UNCHANGED exitCode
    /\ UNCHANGED <<token, discovery, wire>>
    /\ UNCHANGED <<loadVars, aggVars, graphVars, clientVars>>

\* loadCollections up to its await: the three fetchers are called one after
\* the other, each runs up to its first request, and Promise.all awaits them
LoadCollections ==
    /\ runPc = "validated"
    /\ runPc' = "discovery"
    /\ discovery' = [i \in Fetchers |-> NewCall]
    /\ wire' = SentTimes(wire, Cardinality(Fetchers))
    /\ UNCHANGED <<token, exitCode>>
    /\ UNCHANGED <<loadVars, aggVars, graphVars, clientVars>>

\* one step of one of the three get calls. The first rejection rejects
\* Promise.all and main's catch ends the process; when the last call has
\* returned, loadCollections runs to its end and main goes on to
\* fetchAllRaindrops.
Discover ==
    /\ runPc = "discovery"
    /\ \E i \in Fetchers : \E status \in DiscoveryStatuses :
          LET c == ApiRequestStep(discovery[i], status)
              d == [discovery EXCEPT ![i] = c]
              w == WireStep(wire, discovery[i], c) IN
          /\ discovery[i].pc # "done"
          /\ discovery[i].pc # "request" => status = 200
          /\ IF c.pc = "done" /\ c.result.kind = "throw"
             THEN /\ discovery' = d
                  /\ wire' = w
                  /\ runPc' = "exited"
                  /\ exitCode' = 1
                  /\ UNCHANGED <<loadVars, graphVars>>
             ELSE IF \A j \in Fetchers : d[j].pc = "done"
             THEN \E n \in 0 .. MaxCollections :
                     LET g == LoadedGraph(n) IN
                     /\ keys' = g.keys
                     /\ collectionMap' = g.map
                     /\ pathCache' = g.paths
                     /\ rootCache' = g.roots
                     /\ rootIdCache' = g.rootIds
                     /\ fullPaths' = g.fullPaths
                     /\ groupsData' = g.groupsData
                     /\ groups' = buildGroupMap(g.groupsData)
                     /\ phase' = "loaded"
                     /\ discovery' = <<>>
                     /\ wire' = IF n = 0 THEN w ELSE Sent(w)
                     /\ runPc' = IF n = 0 THEN "returned" ELSE "aggregate"
                     /\ UNCHANGED <<rootCollections, childCollections, idx, stack,
                                    mode, retval, fault, exitCode>>
             ELSE /\ discovery' = d
                  /\ wire' = w
                  /\ UNCHANGED <<runPc, exitCode, loadVars, graphVars>>
    /\ UNCHANGED <<token, aggVars, clientVars>>

\* writeRaindropsCsv, 'Done!', and main returns
FinishRun ==
    /\ runPc = "returned"
    /\ runPc' = "exited"
    /\ exitCode' = 0
    /\ UNCHANGED <<token, discovery, wire>>
    /\ UNCHANGED <<loadVars, aggVars, graphVars, clientVars>>

RunNext ==
    \/ ValidateConfig
    \/ LoadCollections
    \/ Discover
    \/ FetchCollectionCsv
    \/ FetchAllRaindrops
    \/ FinishRun

SpecRun == RunInit /\ [][RunNext]_vars

(***************************************************************************)
(* Properties of the aggregation                                           *)
(***************************************************************************)
Fetched == 1 .. Len(processed)

\* the export of the i-th processed collection held a bookmark identified x
HasBookmark(i, x) ==
    /\ i \in Fetched
    /\ processed[i].outcome = "records"
    /\ processed[i].body.text = "csv"
    /\ \E k \in 1 .. Len(processed[i].body.rows) :
          RaindropId(processed[i].body.rows[k]) = x

\* positions of the output's records identified x
RecordsWithId(x) ==
    {k \in 1 .. Len(allRaindrops) : RaindropId(allRaindrops[k]) = x}

\* positions of the output's records tagged with collection id
FromCollection(id) ==
    {k \in 1 .. Len(allRaindrops) : allRaindrops[k].collection_id = id}

MetadataOf(raindrop) ==
    [collection_id |-> raindrop.collection_id,
     collection_title |-> raindrop.collection_title,
     full_path |-> raindrop.full_path,
     root_collection |-> raindrop.root_collection,
     group |-> raindrop.group]

FirstWith(x) == CHOOSE i \in Fetched :
    HasBookmark(i, x) /\ \A j \in Fetched : HasBookmark(j, x) => i <= j

\* C12: when the exports of two different collections both hold a bookmark
\* with the same identifier, the output has exactly one record with that
\* identifier, and it carries the metadata of the first processed of the
\* collections that held it.
C12_FirstCollectionWins ==
    \A x \in {"1", "2"} : \A i, j \in Fetched :
        i < j /\ HasBookmark(i, x) /\ HasBookmark(j, x) =>
            /\ Cardinality(RecordsWithId(x)) = 1
            /\ \A k \in RecordsWithId(x) :
                  MetadataOf(allRaindrops[k]) = Metadata(processed[FirstWith(x)].id)

C12_Witness ==
    /\ runPc = "returned"
    /\ HasBookmark(1, "1") /\ HasBookmark(2, "1")
    /\ Metadata(processed[1].id) # Metadata(processed[2].id)

\* C13: a collection whose export fetch failed for good (a 500 is thrown only
\* when the retries are used up) contributes no record; the loop goes on to
\* every remaining collection, and fetchAllRaindrops returns, with every row
\* of the exports that succeeded present (or dropped as a duplicate of a
\* record that is present).
C13_FailedCollectionIsSkipped ==
    /\ runPc # "fatal"
    /\ Len(processed) = aggIdx - 1
    /\ runPc = "aggregate" => aggIdx <= Len(keys)
    /\ runPc = "returned" => Len(processed) = Len(keys)
    /\ \A i \in Fetched :
          /\ processed[i].id = keys[i]
          /\ processed[i].outcome = "failed" => FromCollection(processed[i].id) = {}
          /\ processed[i].outcome = "records" /\ processed[i].body.text = "csv" =>
                \A k \in 1 .. Len(processed[i].body.rows) :
                    LET row == processed[i].body.rows[k] IN
                    IF RaindropId(row) = ""
                    THEN \E r \in FromCollection(processed[i].id) :
                            RaindropId(allRaindrops[r]) = ""
                    ELSE RecordsWithId(RaindropId(row)) # {}

C13_Witness ==
    /\ runPc = "returned"
    /\ Len(processed) = 2
    /\ processed[1].outcome = "failed" /\ processed[1].status = 500
    /\ processed[2].outcome = "records"
    /\ FromCollection(processed[2].id) # {}

\* C14 (as claimed): after a 401 on an export fetch no further collection is
\* fetched and the run ends with a fatal error.
C14_AuthErrorEndsRun ==
    \A i \in Fetched :
        processed[i].status = 401 =>
            /\ i = Len(processed)
            /\ runPc = "fatal"

\* C15: a collection whose export fetch ends with a 404 yields no record, is
\* not counted as a failure and does not end the run; an empty or
\* whitespace-only body yields no record either.
C15_NotFoundAndBlankAreEmpty ==
    \A i \in Fetched :
        /\ processed[i].status = 404 =>
              /\ processed[i].outcome = "notFound"
              /\ FromCollection(processed[i].id) = {}
              /\ runPc # "fatal"
        /\ processed[i].outcome = "records" /\ processed[i].body.text \in {"", "  "} =>
              FromCollection(processed[i].id) = {}

C15_Witness ==
    /\ runPc = "returned"
    /\ Len(processed) = 2
    /\ processed[1].status = 404
    /\ processed[2].outcome = "records"
    /\ processed[2].body.text = "  " /\ processed[2].body.rows # <<>>

(***************************************************************************)
(* Properties of the whole run                                             *)
(***************************************************************************)
\* the discovery calls that have not settled
DiscoveryInProgress ==
    IF runPc = "discovery"
    THEN {i \in DOMAIN discovery : discovery[i].pc # "done"}
    ELSE {}

\* the export fetch of the aggregation is under way
ExportInProgress == runPc = "aggregate" /\ aggIdx <= Len(keys)

\* no call has been started
NoNetworkActivity == discovery = <<>> /\ AggIdle

\* C16 (as claimed): at every moment at most one request, retry loop or
\* backoff sleep is in progress, the discovery included.
C16_AtMostOneCallInProgress ==
    Cardinality(DiscoveryInProgress) + (IF ExportInProgress THEN 1 ELSE 0) <= 1

\* C17: with the token absent the run ends with exit code 1 and no call is
\* ever started; and no call is started before validateConfig has passed.
C17_TokenCheckedBeforeNetwork ==
    /\ token = "" =>
          /\ NoNetworkActivity
          /\ runPc \in {"start", "exited"}
          /\ runPc = "exited" => exitCode = 1
    /\ runPc = "start" => NoNetworkActivity

C17_Witness ==
    /\ token = ""
    /\ runPc = "exited"
    /\ exitCode = 1
    /\ NoNetworkActivity

(***************************************************************************)
(* Wait accounting of the client                                           *)
(***************************************************************************)
RECURSIVE Sum(_)
Sum(numbers) == IF numbers = <<>> THEN 0 ELSE Head(numbers) + Sum(Tail(numbers))

RECURSIVE BackoffTotal(_)
\* retryDelay * 2^(k - 1) summed over the attempts 2 .. k
BackoffTotal(k) == IF k < 2 THEN 0 ELSE retryDelay * 2^(k - 1) + BackoffTotal(k - 1)

IsCooldown(e) == e.ev = "wait" /\ e.why = "cooldown" /\ e.ms = 5000

AllRateLimited == \A k \in 1 .. maxRetries : outcomes[k] = 429

IdentifierOf(record) == IF record.id # "" THEN record.id ELSE record._id

\* the rows the i-th processed collection handed to the fold, tagged
Offered(i) ==
    IF processed[i].outcome = "records" /\ processed[i].body.text = "csv"
    THEN [k \in 1 .. Len(processed[i].body.rows) |->
             Tagged(processed[i].body.rows[k], Metadata(processed[i].id))]
    ELSE <<>>

RECURSIVE OfferedUpTo(_)
\* all rows handed to the fold so far: collections in processing order, the
\* rows of each in export order
OfferedUpTo(i) == IF i = 0 THEN <<>> ELSE OfferedUpTo(i - 1) \o Offered(i)

RECURSIVE IsSubsequence(_, _)
\* s is t with some elements left out
IsSubsequence(s, t) ==
    IF s = <<>> THEN TRUE
    ELSE IF t = <<>> THEN FALSE
    ELSE IF Head(s) = Head(t) THEN IsSubsequence(Tail(s), Tail(t))
    ELSE IsSubsequence(s, Tail(t))

\* the dedup invariant of an accumulator that was offered the records source
DedupInvariant(acc, source) ==
    /\ acc.seen = {IdentifierOf(acc.out[k]) : k \in 1 .. Len(acc.out)} \ {""}
    /\ \A i, j \in 1 .. Len(acc.out) :
          (i # j /\ IdentifierOf(acc.out[i]) # "") =>
              IdentifierOf(acc.out[i]) # IdentifierOf(acc.out[j])
    /\ acc.total = Len(acc.out)
    /\ IsSubsequence(acc.out, source)

Accumulator == [out |-> allRaindrops, seen |-> seenIds, total |-> totalRaindrops]

\* the invariant holds now, and after each record of any export that may
\* come next is folded
DedupInvariantHolds ==
    /\ DedupInvariant(Accumulator, OfferedUpTo(Len(processed)))
    /\ ExportInProgress =>
          \A body \in Bodies :
              (body.text = "csv" /\ Len(body.rows) + RowsIn(processed) <= MaxRows) =>
                  LET rows == [k \in 1 .. Len(body.rows) |->
                                  Tagged(body.rows[k], Metadata(keys[aggIdx]))] IN
                  \A n \in 0 .. Len(rows) :
                      DedupInvariant(foldRaindrops(Accumulator, SubSeq(rows, 1, n)),
                                     OfferedUpTo(Len(processed)) \o SubSeq(rows, 1, n))

\* a step that records a failed collection leaves the accumulator alone
FailureLeavesAccumulator ==
    (Len(processed') = Len(processed) + 1
        /\ processed'[Len(processed')].outcome = "failed") =>
            /\ allRaindrops' = allRaindrops
            /\ seenIds' = seenIds
            /\ totalRaindrops' = totalRaindrops

\* C22: after each folded record and after each processed collection the
\* seen-id set is exactly the set of non-empty identifiers (id, else _id) of
\* the accumulated records, no two of them share a non-empty identifier, the
\* counter equals the accumulator's length, and the accumulated records are
\* in collection-processing order and, within a collection, export order; a
\* collection whose fetch fails leaves accumulator and seen-id set unchanged.
C22_DedupInvariant ==
    [](DedupInvariantHolds) /\ [][FailureLeavesAccumulator]_vars

C22_Witness ==
    /\ runPc = "returned"
    /\ Len(processed) = 2
    /\ processed[1].outcome = "records"
    /\ processed[1].body.rows = <<[id |-> "", _id |-> "1"]>>
    /\ processed[2].body.rows = <<[id |-> "1", _id |-> ""]>>
    /\ Len(allRaindrops) = 1
    /\ seenIds = {"1"}

\* the rows without identifier the i-th processed collection returned
Anonymous(i) == {k \in 1 .. Len(Offered(i)) : IdentifierOf(Offered(i)[k]) = ""}

\* C23: a record with neither id nor _id is never dropped and never enters
\* the seen-id set: the output holds as many identifier-less records of a
\* collection as its export returned, identical ones included.
C23_AnonymousRecordsAreKept ==
    /\ "" \notin seenIds
    /\ \A i \in Fetched :
          Cardinality({k \in FromCollection(processed[i].id) :
                          IdentifierOf(allRaindrops[k]) = ""})
              = Cardinality(Anonymous(i))

C23_Witness ==
    /\ runPc = "returned"
    /\ processed[1].outcome = "records"
    /\ processed[1].body.text = "csv"
    /\ processed[1].body.rows = <<[id |-> "", _id |-> ""], [id |-> "", _id |-> ""]>>
    /\ Len(allRaindrops) = 2
    /\ allRaindrops[1] = allRaindrops[2]

(***************************************************************************)
(* Spacing of the run's requests                                           *)
(***************************************************************************)
\* C21 (as claimed): any two consecutive requests of a run are separated by
\* a wait of at least requestDelay, also after a failure the caller recovers
\* from and between the discovery requests.
C21_ConsecutiveRequestsAreSpaced == ~wire.unspaced

====
